---- MODULE Spec2Model ----
(***************************************************************************)
(* Programming Joke Bot (src/app.py): the session state kept in            *)
(* st.session_state, the prompt/reply pipeline (get_system_prompt,         *)
(* build_api_messages, get_joke_reply) and the script runs of main(), one  *)
(* per widget event.  A widget event that arrives while a run is under way *)
(* makes Streamlit stop that run at its next yield point (an st.* call, an *)
(* st.session_state access) with an exception that `except Exception`      *)
(* does not catch.  A trigger's run is therefore followed from its first   *)
(* effect on the session, the append of the user message, through its      *)
(* yield points; a run stopped before its first effect leaves the session  *)
(* as it was and is no step.                                               *)
(*                                                                         *)
(* Python strings are TLA+ strings.  A value that may be None (a message's *)
(* content, the error shown by st.error) is a tagged record, so that a     *)
(* string and None can be compared.  The slider's float is counted in      *)
(* hundredths (0.8 is 80).                                                 *)
(***************************************************************************)
EXTENDS Integers, Sequences, FiniteSets, TLC

VARIABLES
    messages,      \* st.session_state.messages
    style,         \* st.session_state.style
    topic,         \* st.session_state.topic
    length,        \* st.session_state.length
    temperature,   \* st.session_state.temperature, in hundredths
    event,         \* the widget event the last script run handled
    user_input,    \* what the user submitted in that run (the chat text)
    system_prompt, \* main's local system_prompt in that run
    api_messages,  \* main's local api_messages in that run
    request,       \* the arguments of client.chat.completions.create in that run
    calls,         \* how many times that run called the completion service
    response,      \* what the completion service answered in that run
    error,         \* what st.error displayed in that run
    pc             \* where that run is: "idle" (ended), "stopped" (by Streamlit),
                   \* "appended" (user message appended), "prompted" (system
                   \* prompt made), "built" (api_messages made), "waiting" (in
                   \* client.chat.completions.create)

vars == <<messages, style, topic, length, temperature, event, user_input,
          system_prompt, api_messages, request, calls, response, error, pc>>

prefs == <<style, topic, length, temperature>>

-----------------------------------------------------------------------------
(* Python values *)

None == [type |-> "NoneType", val |-> ""]

Str(s) == [type |-> "str", val |-> s]

Message(role, content) == [role |-> role, content |-> content]

-----------------------------------------------------------------------------
(* Bounds of the model *)

\* Triggers are taken while the turn's two messages still fit: a second
\* trigger follows an answered one.
MaxMessages == 5

\* Longest history handed to build_api_messages on its own.
MaxHistory == 3

-----------------------------------------------------------------------------
(* Program constants *)

InitGreeting ==
    "Hello! I'm your programming joke bot. Ask me for a joke about any language, framework, or bug!"

NewChatGreeting == "New chat started! What topic should the next joke be about?"

StyleOptions == <<"One-liner", "Pun", "Dad joke", "Knock-knock", "Story">>

LengthOptions == <<"Short", "Medium", "Long">>

DefaultStyle == "One-liner"

DefaultTopic == "Python"

DefaultLength == "Short"

DefaultTemperature == 80

DefaultMaxTokens == 400

Model == "gpt-4"

Range(seq) == {seq[i] : i \in 1..Len(seq)}

-----------------------------------------------------------------------------
(* Inputs *)

\* The styles picked in the selectbox during a session.
StyleInputs == {"One-liner", "Dad joke"}

TopicInputs == {"Python", "Git"}

\* Slider positions, in hundredths.
TemperatureInputs == {0, DefaultTemperature}

ChatInputs == {"Tell me a joke about regex"}

ReplyA == "Why do programmers prefer dark mode? Because light attracts bugs."

ReplyB == "There are 10 kinds of people: those who read binary and those who don't."

Choice(content) == [message |-> [content |-> content]]

Raised(exc) == [raised |-> TRUE, exc |-> exc, choices |-> <<>>]

Returned(choices) == [raised |-> FALSE, exc |-> "", choices |-> choices]

\* What client.chat.completions.create can do: raise, or return a response
\* with zero or more choices, each message's content a string or None.
Responses ==
    {Raised("Connection error.")}
    \cup {Returned(<<>>),
          Returned(<<Choice(Str(ReplyA))>>),
          Returned(<<Choice(None)>>),
          Returned(<<Choice(Str(ReplyA)), Choice(Str(ReplyB))>>)}

NoResponse == Returned(<<>>)

NoRequest == [model |-> "", messages |-> <<>>, temperature |-> 0, max_tokens |-> 0]

-----------------------------------------------------------------------------
(* str.lower *)

LowerChar(c) ==
    CASE c = "A" -> "a" [] c = "B" -> "b" [] c = "C" -> "c" [] c = "D" -> "d"
      [] c = "E" -> "e" [] c = "F" -> "f" [] c = "G" -> "g" [] c = "H" -> "h"
      [] c = "I" -> "i" [] c = "J" -> "j" [] c = "K" -> "k" [] c = "L" -> "l"
      [] c = "M" -> "m" [] c = "N" -> "n" [] c = "O" -> "o" [] c = "P" -> "p"
      [] c = "Q" -> "q" [] c = "R" -> "r" [] c = "S" -> "s" [] c = "T" -> "t"
      [] c = "U" -> "u" [] c = "V" -> "v" [] c = "W" -> "w" [] c = "X" -> "x"
      [] c = "Y" -> "y" [] c = "Z" -> "z" [] OTHER -> c

RECURSIVE lower(_)
lower(s) ==
    IF Len(s) = 0 THEN ""
    ELSE LowerChar(SubSeq(s, 1, 1)) \o lower(SubSeq(s, 2, Len(s)))

-----------------------------------------------------------------------------
(* The pipeline *)

\* A table whose Long entry is the Medium one.
length_guidance_slip(len) ==
    CASE len = "Short" -> "Keep it to 1-2 lines."
      [] len = "Medium" -> "Keep it to ~3-5 lines."
      [] len = "Long" -> "Keep it to ~3-5 lines."
      [] OTHER -> "Keep it concise."

length_guidance(len) ==
    CASE len = "Short" -> "Keep it to 1-2 lines."
      [] len = "Medium" -> "Keep it to ~3-5 lines."
      [] len = "Long" -> "You can go up to ~8 lines, but stay punchy."
      [] OTHER -> "Keep it concise."

get_system_prompt(st, tp, len) ==
    "You are a witty, clean programming comedian. "
    \o "Tell programming-related jokes only. Style preference: " \o st \o ". "
    \o "If a topic is provided, focus on: " \o tp \o ". "
    \o length_guidance(len) \o " "
    \o "Avoid profanity, stereotypes, or sensitive content. "
    \o "Be clever, concise, and punchy. If the user asks for multiple jokes, number them."

\* An assembler that leaves out the messages that carry no text.
build_api_messages_filtered(sp, chat_history) ==
    [ret |-> <<Message("system", Str(sp))>>
             \o SelectSeq(chat_history, LAMBDA m : m.content # None),
     chat_history |-> chat_history]

\* The list is passed by reference: the result is the returned list together
\* with chat_history as the call leaves it.
build_api_messages(sp, chat_history) ==
    [ret |-> <<Message("system", Str(sp))>> \o chat_history,
     chat_history |-> chat_history]

\* create() raises, or choices[0] raises IndexError, or the first choice's
\* content (a string or None) is returned.
get_joke_reply(resp) ==
    IF resp.raised THEN [raised |-> TRUE, exc |-> resp.exc, value |-> None]
    ELSE IF Len(resp.choices) = 0
    THEN [raised |-> TRUE, exc |-> "list index out of range", value |-> None]
    ELSE [raised |-> FALSE, exc |-> "", value |-> resp.choices[1].message.content]

Request(msgs, temp) ==
    [model |-> Model, messages |-> msgs, temperature |-> temp,
     max_tokens |-> DefaultMaxTokens]

\* The request text with the style as selected, not lower-cased.
user_prompt_verbatim(st, tp) == "Tell me a " \o st \o " joke about " \o tp \o "."

user_prompt(st, tp) == "Tell me a " \o lower(st) \o " joke about " \o tp \o "."

InitMessages == <<Message("assistant", Str(InitGreeting))>>

\* A reset to the empty list.
NewChatCleared == <<>>

NewChatMessages == <<Message("assistant", Str(NewChatGreeting))>>

-----------------------------------------------------------------------------
(* The session: the state after the first script run, then one script run  *)
(* of main() per widget event.                                             *)

init_session ==
    /\ messages = InitMessages
    /\ style = DefaultStyle
    /\ topic = DefaultTopic
    /\ length = DefaultLength
    /\ temperature = DefaultTemperature

\* A first script run: no button fired, no chat text, no call.
Loaded ==
    /\ event = "load"
    /\ user_input = None
    /\ system_prompt = ""
    /\ api_messages = <<>>
    /\ request = NoRequest
    /\ calls = 0
    /\ response = NoResponse
    /\ error = None
    /\ pc = "idle"

Init ==
    /\ init_session
    /\ Loaded

\* No run is under way: the last one ended or was stopped.
RunEnded == pc \in {"idle", "stopped"}

\* A run in which no button fired and no chat text was submitted.
NoTrigger ==
    /\ RunEnded
    /\ pc' = "idle"
    /\ user_input' = None
    /\ system_prompt' = ""
    /\ api_messages' = <<>>
    /\ request' = NoRequest
    /\ calls' = 0
    /\ response' = NoResponse
    /\ error' = None

SetStyle ==
    \E s \in StyleInputs \cap Range(StyleOptions) :
        /\ s # style
        /\ style' = s
        /\ event' = "style"
        /\ NoTrigger
        /\ UNCHANGED <<messages, topic, length, temperature>>

SetTopic ==
    \E t \in TopicInputs :
        /\ t # topic
        /\ topic' = t
        /\ event' = "topic"
        /\ NoTrigger
        /\ UNCHANGED <<messages, style, length, temperature>>

SetLength ==
    \E l \in Range(LengthOptions) :
        /\ l # length
        /\ length' = l
        /\ event' = "length"
        /\ NoTrigger
        /\ UNCHANGED <<messages, style, topic, temperature>>

SetTemperature ==
    \E t \in TemperatureInputs :
        /\ t # temperature
        /\ temperature' = t
        /\ event' = "temperature"
        /\ NoTrigger
        /\ UNCHANGED <<messages, style, topic, length>>

\* A reset that also puts the preferences back to their defaults.
NewChatResetsAll ==
    /\ messages' = NewChatMessages
    /\ style' = DefaultStyle
    /\ topic' = DefaultTopic
    /\ length' = DefaultLength
    /\ temperature' = DefaultTemperature
    /\ event' = "new_chat"
    /\ NoTrigger

\* The "New Chat" button.
NewChat ==
    /\ messages' = NewChatMessages
    /\ event' = "new_chat"
    /\ NoTrigger
    /\ UNCHANGED prefs

\* A run that makes no call yet: nothing built, nothing sent.
NothingSent ==
    /\ system_prompt' = ""
    /\ api_messages' = <<>>
    /\ request' = NoRequest
    /\ calls' = 0
    /\ response' = NoResponse
    /\ error' = None

\* The "Tell me a joke now" button that appends no user message.
TellJokeNowSilent ==
    /\ RunEnded
    /\ Len(messages) + 2 <= MaxMessages
    /\ event' = "tell_joke"
    /\ user_input' = None
    /\ messages' = messages
    /\ NothingSent
    /\ pc' = "appended"
    /\ UNCHANGED prefs

\* The "Tell me a joke now" button: the user message is made from the
\* preferences and appended (lines 104-106).
TellJokeNow ==
    /\ RunEnded
    /\ Len(messages) + 2 <= MaxMessages
    /\ event' = "tell_joke"
    /\ user_input' = None
    /\ messages' = Append(messages, Message("user", Str(user_prompt(style, topic))))
    /\ NothingSent
    /\ pc' = "appended"
    /\ UNCHANGED prefs

\* The chat input: the submitted text is appended (lines 126-128).
ChatInput ==
    \E text \in ChatInputs :
        /\ RunEnded
        /\ Len(messages) + 2 <= MaxMessages
        /\ Len(text) > 0
        /\ event' = "chat_input"
        /\ user_input' = Str(text)
        /\ messages' = Append(messages, Message("user", Str(text)))
        /\ NothingSent
        /\ pc' = "appended"
        /\ UNCHANGED prefs

\* system_prompt = get_system_prompt(...) (line 107, line 133).
MakeSystemPrompt ==
    /\ pc = "appended"
    /\ system_prompt' = get_system_prompt(style, topic, length)
    /\ pc' = "prompted"
    /\ UNCHANGED <<messages, prefs, event, user_input, api_messages, request,
                   calls, response, error>>

\* api_messages = build_api_messages(...) (line 108, line 134).
MakeApiMessages ==
    LET built == build_api_messages(system_prompt, messages)
    IN  /\ pc = "prompted"
        /\ api_messages' = built.ret
        /\ messages' = built.chat_history
        /\ pc' = "built"
        /\ UNCHANGED <<prefs, event, user_input, system_prompt, request, calls,
                       response, error>>

\* get_joke_reply is entered and the request sent (lines 110-114, 135-139).
EnterCreate ==
    /\ pc = "built"
    /\ request' = Request(api_messages, temperature)
    /\ calls' = calls + 1
    /\ pc' = "waiting"
    /\ UNCHANGED <<messages, prefs, event, user_input, system_prompt,
                   api_messages, response, error>>

\* The rest of the button's run, not stopped: the call returns or raises, and
\* the reply is appended or the error shown (lines 109-117).
TellJokeNowReply ==
    \E resp \in Responses :
        LET r == get_joke_reply(resp)
        IN  /\ pc = "waiting"
            /\ event = "tell_joke"
            /\ response' = resp
            /\ messages' = IF r.raised THEN messages
                           ELSE Append(messages, Message("assistant", r.value))
            /\ error' = IF r.raised THEN Str("Error: " \o r.exc) ELSE None
            /\ pc' = "idle"
            /\ UNCHANGED <<prefs, event, user_input, system_prompt, api_messages,
                           request, calls>>

\* The rest of the chat input's run, not stopped (lines 132-144).
ChatInputReply ==
    \E resp \in Responses :
        LET r == get_joke_reply(resp)
        IN  /\ pc = "waiting"
            /\ event = "chat_input"
            /\ response' = resp
            /\ messages' = IF r.raised THEN messages
                           ELSE Append(messages, Message("assistant", r.value))
            /\ error' = IF r.raised THEN Str("Error: " \o r.exc) ELSE None
            /\ pc' = "idle"
            /\ UNCHANGED <<prefs, event, user_input, system_prompt, api_messages,
                           request, calls>>

\* A widget event arrived after the user message was appended and before the
\* call was made: the run is stopped at its next yield point (the
\* st.session_state accesses of lines 107, 108, 113; st.chat_message and
\* st.spinner of lines 130, 131 and the accesses of lines 133, 134, 138), the
\* completion service is never called.
ScriptStoppedBeforeCall ==
    /\ pc \in {"appended", "prompted", "built"}
    /\ pc' = "stopped"
    /\ UNCHANGED <<messages, prefs, event, user_input, system_prompt,
                   api_messages, request, calls, response, error>>

\* A widget event arrived while the run waited in create().  Whatever the
\* call does, the run is stopped at the first yield point after it (the
\* st.session_state access of line 115, st.error of lines 117 and 141,
\* st.write of line 143): no reply is appended and no error is shown.
ScriptStopped ==
    \E resp \in Responses :
        /\ pc = "waiting"
        /\ response' = resp
        /\ pc' = "stopped"
        /\ UNCHANGED <<messages, prefs, event, user_input, system_prompt,
                       api_messages, request, calls, error>>

Next ==
    \/ SetStyle
    \/ SetTopic
    \/ SetLength
    \/ SetTemperature
    \/ NewChat
    \/ TellJokeNow
    \/ ChatInput
    \/ MakeSystemPrompt
    \/ MakeApiMessages
    \/ EnterCreate
    \/ TellJokeNowReply
    \/ ChatInputReply
    \/ ScriptStoppedBeforeCall
    \/ ScriptStopped

Spec == Init /\ [][Next]_vars

-----------------------------------------------------------------------------
(* The structured trigger under every setting of the preferences: a        *)
(* session whose widgets were set, and whose chat was new or reset, before *)
(* the button is clicked.                                                  *)

StructuredInit ==
    /\ messages \in {InitMessages, NewChatMessages}
    /\ style \in Range(StyleOptions)
    /\ topic \in TopicInputs \cup {"", "regex"}
    /\ length \in Range(LengthOptions)
    /\ temperature \in TemperatureInputs
    /\ Loaded

StructuredNext ==
    \/ TellJokeNow
    \/ MakeSystemPrompt
    \/ MakeApiMessages
    \/ EnterCreate
    \/ TellJokeNowReply
    \/ ScriptStoppedBeforeCall
    \/ ScriptStopped

StructuredSpec == StructuredInit /\ [][StructuredNext]_vars

-----------------------------------------------------------------------------
(* get_system_prompt on its own: any style, topic and length, recognised   *)
(* or not.  Here system_prompt is what the last call returned; between two *)
(* calls a run of main() may handle the slider or the New Chat button, so  *)
(* that the next call is made with another temperature and Conversation.   *)
(* A session whose style or length is not among the options gets no such   *)
(* run: the .index of lines 88 and 94 raises ValueError before any widget  *)
(* is handled.                                                             *)

SynthTopicInputs == TopicInputs \cup {"", "regex"}

LengthInputs == Range(LengthOptions) \cup {"", "short", "Huge"}

SynthInit ==
    /\ style \in Range(StyleOptions)
    /\ topic \in SynthTopicInputs
    /\ length \in LengthInputs
    /\ messages = InitMessages
    /\ temperature = DefaultTemperature
    /\ Loaded

Synthesize ==
    /\ event' = "get_system_prompt"
    /\ system_prompt' = get_system_prompt(style, topic, length)
    /\ UNCHANGED <<messages, style, topic, length, temperature, user_input,
                   api_messages, request, calls, response, error, pc>>

\* The selectboxes of lines 84-94 find the session's style and length among
\* their options.
WidgetsRender ==
    /\ style \in Range(StyleOptions)
    /\ length \in Range(LengthOptions)

\* A run of main() between two calls in which the slider was moved (line 95):
\* only the temperature changes.
SetTemperatureBetweenCalls ==
    \E t \in TemperatureInputs :
        /\ WidgetsRender
        /\ t # temperature
        /\ temperature' = t
        /\ event' = "temperature"
        /\ UNCHANGED <<messages, style, topic, length, user_input, system_prompt,
                       api_messages, request, calls, response, error, pc>>

\* A run of main() between two calls in which New Chat fired (lines 99-102):
\* only the Conversation changes.
NewChatBetweenCalls ==
    /\ WidgetsRender
    /\ messages' = NewChatMessages
    /\ event' = "new_chat"
    /\ UNCHANGED <<style, topic, length, temperature, user_input, system_prompt,
                   api_messages, request, calls, response, error, pc>>

SynthNext ==
    \/ Synthesize
    \/ SetTemperatureBetweenCalls
    \/ NewChatBetweenCalls

SynthSpec == SynthInit /\ [][SynthNext]_vars

-----------------------------------------------------------------------------
(* build_api_messages on its own: any system prompt and any history.       *)

SampleMessages ==
    {Message("assistant", Str(ReplyA)), Message("assistant", None),
     Message("user", Str("Tell me a joke about regex")),
     Message("system", Str("Be brief."))}

RECURSIVE Histories(_)
Histories(n) ==
    IF n = 0 THEN {<<>>}
    ELSE Histories(n - 1)
         \cup {Append(h, m) : h \in {g \in Histories(n - 1) : Len(g) = n - 1},
                              m \in SampleMessages}

PromptInputs ==
    {"", "Be brief.", get_system_prompt(DefaultStyle, DefaultTopic, DefaultLength)}

AssembleInit ==
    /\ messages \in Histories(MaxHistory)
    /\ style = DefaultStyle
    /\ topic = DefaultTopic
    /\ length = DefaultLength
    /\ temperature = DefaultTemperature
    /\ Loaded

Assemble ==
    \E sp \in PromptInputs :
        LET built == build_api_messages(sp, messages)
        IN  /\ event = "load"
            /\ event' = "build_api_messages"
            /\ system_prompt' = sp
            /\ api_messages' = built.ret
            /\ messages' = built.chat_history
            /\ UNCHANGED <<style, topic, length, temperature, user_input,
                           request, calls, response, error, pc>>

AssembleNext == Assemble

AssembleSpec == AssembleInit /\ [][AssembleNext]_vars

-----------------------------------------------------------------------------
(* Properties *)

Triggers == {"tell_joke", "chat_input"}

\* t occurs in s (both strings).
Contains(s, t) ==
    \E i \in 1..(Len(s) - Len(t) + 1) : SubSeq(s, i, i + Len(t) - 1) = t

\* The completion call of the last run ended in an exception.
CallFailed == response.raised \/ response.choices = <<>>

LowerCased(st) ==
    CASE st = "One-liner" -> "one-liner"
      [] st = "Pun" -> "pun"
      [] st = "Dad joke" -> "dad joke"
      [] st = "Knock-knock" -> "knock-knock"
      [] st = "Story" -> "story"

\* The user message the last run's trigger stands for.
TriggerMessage ==
    Message("user", IF event = "chat_input" THEN user_input
                    ELSE Str("Tell me a " \o LowerCased(style)
                             \o " joke about " \o topic \o "."))

AdjacentAssistants(msgs) ==
    \E i \in 1..(Len(msgs) - 1) :
        msgs[i].role = "assistant" /\ msgs[i + 1].role = "assistant"

Roles(msgs) == [i \in 1..Len(msgs) |-> msgs[i].role]

\* The run is between the append of the user message and its end.
Running == pc \in {"appended", "prompted", "built", "waiting"}

\* C1: a turn whose completion call raises leaves the Conversation as it was
\* before the trigger plus the triggering user message (one message longer,
\* the earlier messages untouched, no assistant message) and shows an error.
C1_FailedTurnKeepsOnlyUserMessage ==
    [][/\ pc' = "appended" => messages' = Append(messages, TriggerMessage')
       /\ (Running /\ Running') => messages' = messages
       /\ (pc = "waiting" /\ pc' # "waiting" /\ CallFailed')
              => (messages' = messages /\ error' # None)]_vars

\* C2: build_api_messages returns the system message carrying the prompt
\* followed by every message of the history in its order, 1 + n messages in
\* all, and leaves the history as it was.
C2_AssemblerKeepsWholeHistory ==
    [][event' = "build_api_messages"
       => /\ Len(api_messages') = 1 + Len(messages)
          /\ api_messages'[1] = Message("system", Str(system_prompt'))
          /\ \A i \in 1..Len(messages) : api_messages'[i + 1] = messages[i]
          /\ messages' = messages]_vars

C2_Witness ==
    /\ event = "build_api_messages"
    /\ Len(messages) = MaxHistory
    /\ Len(api_messages) = MaxHistory + 1
    /\ messages[1] = messages[2]
    /\ \E i \in 1..Len(messages) : messages[i].content = None

\* C3: a turn whose completion call returns appends exactly two messages, the
\* triggering user message and then an assistant message carrying the content
\* of the first choice of the response.
C3_SuccessfulTurnAppendsUserThenReply ==
    [][/\ pc' = "appended" => messages' = Append(messages, TriggerMessage')
       /\ (Running /\ pc # "waiting") => messages' = messages
       /\ (pc = "waiting" /\ pc' # "waiting" /\ ~CallFailed')
              => messages' = Append(messages,
                     Message("assistant", response'.choices[1].message.content))]_vars

\* C4: New Chat leaves a Conversation of exactly one message, of role
\* assistant, whatever the history was, and leaves style, topic, length and
\* temperature as they were.
C4_ResetYieldsSingleGreeting ==
    [][event' = "new_chat"
       => /\ Len(messages') = 1
          /\ messages'[1].role = "assistant"
          /\ prefs' = prefs]_vars

C4_Witness ==
    /\ event = "new_chat"
    /\ Len(messages) = 1
    /\ style = "Dad joke"
    /\ topic = "Git"
    /\ length = "Long"
    /\ temperature = 0

\* C5: the Conversation is never empty and its first message is an
\* assistant message.
C5_FirstMessageIsAssistant ==
    /\ Len(messages) >= 1
    /\ messages[1].role = "assistant"

C5_Witness ==
    /\ event = "new_chat"
    /\ messages[1].content = Str(NewChatGreeting)

\* C6: a run that handles a trigger calls the completion service exactly
\* once, also when the call fails, before the session awaits input again,
\* and a run that handles anything else does not call it.
C6_OneCallPerTrigger ==
    RunEnded => calls = IF event \in Triggers THEN 1 ELSE 0

\* C7 as stated: the sidebar trigger used right after a prior trigger leaves
\* the Conversation with two assistant replies next to each other.  The claim
\* names the route to that state; at the end of the route (the sidebar
\* trigger answered, the turn before it answered too) the Conversation would
\* hold two assistant messages in a row.
C7_SidebarGivesTwoRepliesInARow ==
    (/\ event = "tell_joke"
     /\ pc = "idle"
     /\ ~CallFailed
     /\ Len(messages) >= 5
     /\ messages[Len(messages) - 2].role = "assistant")
        => AdjacentAssistants(messages)

\* C7 amended: no two assistant messages are ever next to each other, by
\* whatever route, since every trigger appends its user message before the
\* reply.
C7_NoTwoAssistantsInARow == ~AdjacentAssistants(messages)

\* The sidebar trigger answered right after an answered trigger.
C7_Witness ==
    /\ event = "tell_joke"
    /\ pc = "idle"
    /\ ~CallFailed
    /\ Roles(messages) = <<"assistant", "user", "assistant", "user", "assistant">>

\* C8: a response whose first choice carries no text is treated as a failure,
\* so every message of the Conversation has string content.
C8_EveryContentIsAString ==
    \A i \in 1..Len(messages) : messages[i].content.type = "str"

\* C9: the structured trigger appends the user message "Tell me a <style,
\* lower-cased> joke about <topic>." for the style and topic current at the
\* click, whatever the length ("Tell me a pun joke about Git." for Pun, Git).
C9_StructuredTriggerText ==
    [][(event' = "tell_joke" /\ pc' = "appended")
       => /\ Len(messages') = Len(messages) + 1
          /\ messages'[Len(messages) + 1] =
                 Message("user", Str("Tell me a " \o LowerCased(style)
                                     \o " joke about " \o topic \o "."))
          /\ (style = "Pun" /\ topic = "Git")
                 => messages'[Len(messages) + 1].content.val
                        = "Tell me a pun joke about Git."]_vars

C9_Witness ==
    /\ event = "tell_joke"
    /\ style = "Knock-knock"
    /\ topic = "Git"
    /\ length = "Long"
    /\ messages[2] = Message("user", Str("Tell me a knock-knock joke about Git."))

\* The guidance string the lookup table gives for a length (the sentence the
\* design document quotes for Short, "Keep it to 1-2 lines.", and its
\* fellows).
TableGuidance(len) ==
    CASE len = "Short" -> "Keep it to 1-2 lines."
      [] len = "Medium" -> "Keep it to ~3-5 lines."
      [] len = "Long" -> "You can go up to ~8 lines, but stay punchy."
      [] OTHER -> "Keep it concise."

\* C10: the prompt get_system_prompt returns contains the lookup table's
\* guidance string for Short, Medium and Long and "Keep it concise." for any
\* other length, and it depends only on (style, topic, length): called again
\* with the same three after the temperature or the Conversation changed, it
\* returns the same prompt.
C10_PromptFromLookupTable ==
    [][event' = "get_system_prompt"
       => /\ Contains(system_prompt', TableGuidance(length))
          /\ (length \notin Range(LengthOptions))
                 => Contains(system_prompt', "Keep it concise.")
          /\ (system_prompt # "" /\ <<style', topic', length'>> = <<style, topic, length>>)
                 => system_prompt' = system_prompt]_vars

\* The Long prompt, made again after the slider was moved and the chat reset.
C10_Witness ==
    /\ event = "get_system_prompt"
    /\ length = "Long"
    /\ messages = NewChatMessages
    /\ temperature # DefaultTemperature
    /\ Contains(system_prompt, "You can go up to ~8 lines, but stay punchy.")
    /\ ~Contains(system_prompt, "Keep it")

====
